---------------------------- MODULE Spec2Model ----------------------------
(***************************************************************************)
(* Model of the worklet factory of the Reanimated Babel plugin             *)
(* (plugin/src/workletFactory.ts): makeWorkletFactory, makeWorkletName,    *)
(* hash and makeArrayFromCapturedBindings.                                 *)
(*                                                                         *)
(* Strings are sequences of one-character strings, so that sanitisation,   *)
(* concatenation and hashing are computed character by character.          *)
(***************************************************************************)
EXTENDS Integers, Sequences, FiniteSets, TLC

VARIABLES
    \* ---- state of one compilation unit (ReanimatedPluginPass + program) ----
    env,             \* process.env as isRelease and shouldMockVersion read it
    filename,        \* state.file.opts.filename: a path, or NoFilename
    opts,            \* state.opts: omitNativeOnlyData, relativeSourceLocation
    workletNumber,   \* state.workletNumber
    uids,            \* uid names the program scope has handed out
    program,         \* declarations inserted before the top-level statement
    names,           \* every value makeWorkletName has returned, in order
    last,            \* outcome of the latest makeWorkletFactory invocation
    calls,           \* number of invocations so far
    \* ---- position of the two traversals of makeArrayFromCapturedBindings ----
    cFun,            \* the function under analysis
    cPos1,           \* next identifier of traverse(ast, ...)
    cPos2,           \* next identifier of fun.traverse(...)
    closure,         \* the Map closure: name -> Identifier, in insertion order
    isLocationAssignedMap,
    cRet,            \* Array.from(closure.values()), once returned
    \* ---- position of the loop of hash ----
    hStr, hI, hash1, hash2, hRet

factoryVars == <<env, filename, opts, workletNumber, uids, program, names, last, calls>>
captureVars == <<cFun, cPos1, cPos2, closure, isLocationAssignedMap, cRet>>
hashVars    == <<hStr, hI, hash1, hash2, hRet>>
vars        == <<factoryVars, captureVars, hashVars>>

\* An optional string: undefined, or a string (which may be empty).
UndefinedString == [defined |-> FALSE, str |-> <<>>]

String(chars) == [defined |-> TRUE, str |-> chars]

\* What assert(x) and if (x) accept of an optional string.
Truthy(s) == s.defined /\ s.str # <<>>

(***************************************************************************)
(* Bounds of the model.                                                    *)
(***************************************************************************)
MaxCalls == 2
MaxLen   == 6

(***************************************************************************)
(* Characters and strings.                                                 *)
(***************************************************************************)
Digits  == {"0", "1", "2", "3", "4", "5", "6", "7", "8", "9"}
Lower   == {"a", "b", "c", "d", "e", "f", "g", "i", "j", "k", "l", "m", "n",
            "o", "s", "t", "u", "w"}
Upper   == {"A", "B", "C", "D", "E", "F", "G", "I", "J", "K", "L", "M", "N",
            "O", "S", "T", "U", "W"}

toUpperCase(c) ==
    CASE c = "a" -> "A" [] c = "b" -> "B" [] c = "c" -> "C" [] c = "d" -> "D"
      [] c = "e" -> "E" [] c = "f" -> "F" [] c = "g" -> "G" [] c = "i" -> "I"
      [] c = "j" -> "J" [] c = "k" -> "K" [] c = "l" -> "L" [] c = "m" -> "M"
      [] c = "n" -> "N" [] c = "o" -> "O" [] c = "s" -> "S" [] c = "t" -> "T"
      [] c = "u" -> "U" [] c = "w" -> "W"
      [] OTHER -> c

RECURSIVE Concat(_)
Concat(ss) == IF ss = <<>> THEN <<>> ELSE Head(ss) \o Concat(Tail(ss))

DigitChar(d) ==
    CASE d = 0 -> "0" [] d = 1 -> "1" [] d = 2 -> "2" [] d = 3 -> "3"
      [] d = 4 -> "4" [] d = 5 -> "5" [] d = 6 -> "6" [] d = 7 -> "7"
      [] d = 8 -> "8" [] d = 9 -> "9"

\* Number-to-string conversion of a template literal, for a natural number.
RECURSIVE NumberToString(_)
NumberToString(n) ==
    IF n < 10 THEN <<DigitChar(n)>>
    ELSE NumberToString(n \div 10) \o <<DigitChar(n % 10)>>

(***************************************************************************)
(* toIdentifier of @babel/types, as makeWorkletName calls it.              *)
(***************************************************************************)
IdentifierStartChars == Lower \cup Upper \cup {"_", "$"}

IdentifierChars == IdentifierStartChars \cup Digits

isIdentifierChar(c) == c \in IdentifierChars

isIdentifierStart(c) == c \in IdentifierStartChars

ReservedWords == { <<"d", "o">>, <<"i", "f">>, <<"i", "n">>, <<"l", "e", "t">> }

isValidIdentifier(name) ==
    /\ name \notin ReservedWords
    /\ Len(name) > 0
    /\ isIdentifierStart(name[1])
    /\ \A i \in 1..Len(name) : isIdentifierChar(name[i])

\* name.replace(/^[-0-9]+/, "")
RECURSIVE StripLeadingDashesAndNumbers(_)
StripLeadingDashesAndNumbers(s) ==
    IF s # <<>> /\ (Head(s) = "-" \/ Head(s) \in Digits)
    THEN StripLeadingDashesAndNumbers(Tail(s))
    ELSE s

RECURSIVE StripDashes(_)
StripDashes(s) ==
    IF s # <<>> /\ Head(s) = "-" THEN StripDashes(Tail(s)) ELSE s

\* name.replace(/[-\s]+(.)?/g, (match, c) => c ? c.toUpperCase() : "")
RECURSIVE CamelCase(_)
CamelCase(s) ==
    IF s = <<>> THEN <<>>
    ELSE IF Head(s) = "-"
         THEN LET rest == StripDashes(s)
              IN  IF rest = <<>> THEN <<>>
                  ELSE <<toUpperCase(Head(rest))>> \o CamelCase(Tail(rest))
         ELSE <<Head(s)>> \o CamelCase(Tail(s))

toIdentifier(input) ==
    LET dashed   == [i \in 1..Len(input) |->
                        IF isIdentifierChar(input[i]) THEN input[i] ELSE "-"]
        stripped == StripLeadingDashesAndNumbers(dashed)
        camel    == CamelCase(stripped)
        name     == IF isValidIdentifier(camel) THEN camel ELSE <<"_">> \o camel
    IN  IF name = <<>> THEN <<"_">> ELSE name

(***************************************************************************)
(* File paths: a path is the sequence of its segments, as split('/')       *)
(* yields them for an absolute path (the first segment is empty).          *)
(***************************************************************************)
NodeModules == <<"n", "o", "d", "e", "_", "m", "o", "d", "u", "l", "e", "s">>

FileApp     == << <<>>, <<"a", "d">>, <<"a", ".", "t", "s">> >>
FileLibrary == << <<>>, NodeModules, <<"l", "i", "b">>, <<"b", ".", "j", "s">> >>
FileDigits  == << <<>>, <<"a", "d">>, <<"1", "2">> >>
NoFilename  == <<>>      \* state.file.opts.filename is undefined
FileNames   == {FileApp, FileLibrary, FileDigits, NoFilename}

Cwd == << <<>>, <<"a", "d">> >>

basename(filepath) == filepath[Len(filepath)]

\* splitFilepath.indexOf(x): zero-based, -1 when absent
indexOf(seq, x) ==
    IF \E i \in 1..Len(seq) : seq[i] = x
    THEN (CHOOSE i \in 1..Len(seq) :
              seq[i] = x /\ \A j \in 1..(i - 1) : seq[j] # x) - 1
    ELSE -1

\* Reading an array past its end gives undefined, which a template prints.
ElementOrUndefined(seq, zeroBased) ==
    IF zeroBased + 1 \in 1..Len(seq) THEN seq[zeroBased + 1]
    ELSE <<"u", "n", "d", "e", "f", "i", "n", "e", "d">>

(***************************************************************************)
(* hash: two 32-bit accumulators.  The bitwise operators of the language   *)
(* work on signed 32-bit integers; products are formed half by half so     *)
(* that no intermediate value leaves the 32-bit range.                     *)
(***************************************************************************)
TwoTo16 == 65536

CharCodes == [c \in {"a", "f", "(", ")", "{", "}", "*"} |->
                 CASE c = "a" -> 97  [] c = "f" -> 102 [] c = "(" -> 40
                   [] c = ")" -> 41  [] c = "{" -> 123 [] c = "}" -> 125
                   [] c = "*" -> 65533]

charCodeAt(str, i) == CharCodes[str[i]]

\* a ^ b for 0 <= a, b < 2^16
RECURSIVE BitXor(_, _, _)
BitXor(a, b, bits) ==
    IF bits = 0 THEN 0
    ELSE ((a + b) % 2) + 2 * BitXor(a \div 2, b \div 2, bits - 1)

\* ToInt32(h * 33) for a signed 32-bit h
TimesToInt32(h, k) ==
    LET hi  == h \div TwoTo16            \* floor: -32768 .. 32767
        lo  == h % TwoTo16               \* 0 .. 65535
        plo == lo * k
        phi == hi * k + (plo \div TwoTo16)
        whi == ((phi + 32768) % TwoTo16) - 32768
    IN  whi * TwoTo16 + (plo % TwoTo16)

\* x ^ char for a signed 32-bit x and a 16-bit code unit
XorInt32(x, char) ==
    (x \div TwoTo16) * TwoTo16 + BitXor(x % TwoTo16, char, 16)

\* hash1 = (hash1 * 33) ^ char
HashUpdate(acc, char) == XorInt32(TimesToInt32(acc, 33), char)

\* x >>> 0, as the two 16-bit halves <<high, low>> of the unsigned value
UnsignedShiftZero(x) == << (x \div TwoTo16) % TwoTo16, x % TwoTo16 >>

\* u1 * 4096 + u2 for unsigned 32-bit u1, u2 given by halves; the result, below
\* 2^44, is the sequence of its base-65536 digits, most significant first.
HashCombine(u1, u2) ==
    LET d0 == (u1[2] % 16) * 4096 + u2[2]
        d1 == (u1[2] \div 16) + (u1[1] % 16) * 4096 + u2[1] + (d0 \div TwoTo16)
        d2 == (u1[1] \div 16) + (d1 \div TwoTo16)
    IN  << d2, d1 % TwoTo16, d0 % TwoTo16 >>

\* Mutation: the accumulators are combined without ">>> 0".
HashReturnSigned(h1, h2) ==
    HashCombine(<< h1 \div TwoTo16, h1 % TwoTo16 >>,
                << h2 \div TwoTo16, h2 % TwoTo16 >>)

HashReturn(h1, h2) == HashCombine(UnsignedShiftZero(h1), UnsignedShiftZero(h2))

\* The loop "while (i--)" run to its end from position i.
RECURSIVE HashLoop(_, _, _, _)
HashLoop(str, i, h1, h2) ==
    IF i = 0 THEN HashReturn(h1, h2)
    ELSE HashLoop(str, i - 1, HashUpdate(h1, charCodeAt(str, i)),
                              HashUpdate(h2, charCodeAt(str, i)))

Seed1 == 5381
Seed2 == 52711

hash(str) == HashLoop(str, Len(str), Seed1, Seed2)

(***************************************************************************)
(* Functions handed to the pass.  A function is given by its syntactic     *)
(* form, its own name, and the Identifier nodes of its two trees in        *)
(* traversal order: occs, the tree transformSync returns for               *)
(* "(" + code + "\n)", and orig, the original function.  ctx says where    *)
(* the identifier stands in its parent; scope is the scope it stands in.   *)
(* Scope 1 is the program scope of the generated tree, scope 2 the scope   *)
(* of the function, scope 3 a block nested in it.                          *)
(***************************************************************************)
NoName == ""     \* a null id or key

Occ(name, ctx, scope) == [name |-> name, ctx |-> ctx, scope |-> scope]

Nodes(tree, list) ==
    [i \in 1..Len(list) |->
        [name |-> list[i].name, ctx |-> list[i].ctx, scope |-> list[i].scope,
         id |-> i, loc |-> <<tree, i>>]]

Scopes2(bindings) == << [parent |-> 0, bindings |-> {}],
                        [parent |-> 1, bindings |-> bindings] >>

Scopes3(bindings, inner) == << [parent |-> 0, bindings |-> {}],
                               [parent |-> 1, bindings |-> bindings],
                               [parent |-> 2, bindings |-> inner] >>

Worklet(form, id, key, bodyIsBlock, occs, orig, scopes) ==
    [form |-> form, id |-> id, key |-> key, bodyIsBlock |-> bodyIsBlock,
     occs |-> Nodes("generated", occs), orig |-> Nodes("original", orig),
     scopes |-> scopes,
     directives |-> << [value |-> "worklet", owner |-> "fun"],
                       [value |-> "worklet", owner |-> "nested"],
                       [value |-> "use strict", owner |-> "fun"] >>]

\* function add(a, b) { return a + b + outer; }
FunAdd ==
    LET ids == << Occ("add", "binding", 2), Occ("a", "binding", 2),
                  Occ("b", "binding", 2), Occ("a", "expr", 2),
                  Occ("b", "expr", 2), Occ("outer", "expr", 2) >>
    IN  Worklet("FunctionDeclaration", "add", NoName, TRUE, ids, ids,
                Scopes2({"add", "a", "b"}))

\* (x) => x * 2
FunArrow ==
    LET ids == << Occ("x", "binding", 2), Occ("x", "expr", 2) >>
    IN  Worklet("ArrowFunctionExpression", NoName, NoName, FALSE, ids, ids,
                Scopes2({"x"}))

\* () => { const r = x + y; { const x = 1; r + x; } return x * y; }
FunNest ==
    LET ids == << Occ("r", "binding", 2), Occ("x", "expr", 2),
                  Occ("y", "expr", 2), Occ("x", "binding", 3),
                  Occ("r", "expr", 3), Occ("x", "expr", 3),
                  Occ("x", "expr", 2), Occ("y", "expr", 2) >>
    IN  Worklet("ArrowFunctionExpression", NoName, NoName, TRUE, ids, ids,
                Scopes3({"r"}, {"x"}))

\* function () { return { [k]: v, a: 1, b }; }     (b lowered to b: b)
FunObj ==
    LET ids == << Occ("k", "objectComputedKey", 2), Occ("v", "objectValue", 2),
                  Occ("a", "objectKey", 2), Occ("b", "objectKey", 2),
                  Occ("b", "objectValue", 2) >>
    IN  Worklet("FunctionExpression", NoName, NoName, TRUE, ids, ids,
                Scopes2({}))

\* { foo() { return foo(y) + y; } }      (generated as "(function foo() ...")
FunMethod ==
    LET gen == << Occ("foo", "binding", 2), Occ("foo", "expr", 2),
                  Occ("y", "expr", 2), Occ("y", "expr", 2) >>
        org == << Occ("foo", "methodKey", 2), Occ("foo", "expr", 2),
                  Occ("y", "expr", 2), Occ("y", "expr", 2) >>
    IN  Worklet("ObjectMethod", NoName, "foo", TRUE, gen, org,
                Scopes2({"foo"}))

\* function fact(n) { return n * fact(n - 1) * z; }
FunRec ==
    LET ids == << Occ("fact", "binding", 2), Occ("n", "binding", 2),
                  Occ("n", "expr", 2), Occ("fact", "expr", 2),
                  Occ("n", "expr", 2), Occ("z", "expr", 2) >>
    IN  Worklet("FunctionExpression", "fact", NoName, TRUE, ids, ids,
                Scopes2({"fact", "n"}))

\* () => obj.prop + obj[idx] + console.log(prop)
FunMember ==
    LET ids == << Occ("obj", "memberObject", 2), Occ("prop", "memberProperty", 2),
                  Occ("obj", "memberObject", 2), Occ("idx", "memberComputed", 2),
                  Occ("console", "memberObject", 2),
                  Occ("log", "memberProperty", 2), Occ("prop", "expr", 2) >>
    IN  Worklet("ArrowFunctionExpression", NoName, NoName, FALSE, ids, ids,
                Scopes2({}))

\* function add() { const { [pk]: t } = src; { const src = t; } return add; }
FunPattern ==
    LET ids == << Occ("add", "binding", 2), Occ("pk", "patternComputedKey", 2),
                  Occ("t", "binding", 2), Occ("src", "expr", 2),
                  Occ("src", "binding", 3), Occ("t", "expr", 3),
                  Occ("add", "expr", 2) >>
    IN  Worklet("FunctionExpression", "add", NoName, TRUE, ids, ids,
                Scopes3({"add", "t"}, {"src"}))

\* function () { { const w = 1; w; } return w + Math.abs(w); }
FunShadow ==
    LET ids == << Occ("w", "binding", 3), Occ("w", "expr", 3),
                  Occ("w", "expr", 2), Occ("Math", "memberObject", 2),
                  Occ("abs", "memberProperty", 2), Occ("w", "expr", 2) >>
    IN  Worklet("FunctionExpression", NoName, NoName, TRUE, ids, ids,
                Scopes3({}, {"w"}))

Functions == {FunAdd, FunArrow, FunNest, FunObj, FunMethod, FunRec,
              FunMember, FunPattern, FunShadow}

\* The characters of the own names above.
NameChars(name) ==
    CASE name = "add"  -> <<"a", "d", "d">>
      [] name = "fact" -> <<"f", "a", "c", "t">>
      [] name = "foo"  -> <<"f", "o", "o">>

\* The allow-list imported from ./globals.
globals == {"console", "Math", "undefined"}

(***************************************************************************)
(* What the syntax-tree library answers about an Identifier.               *)
(***************************************************************************)
isReferencedIdentifier(node) ==
    node.ctx \in {"expr", "memberObject", "memberComputed", "objectValue",
                  "objectComputedKey", "patternComputedKey"}

isMemberExpressionParent(node) ==
    node.ctx \in {"memberObject", "memberProperty", "memberComputed"}

isPropertyOfParent(node) == node.ctx \in {"memberProperty", "memberComputed"}

parentComputed(node) ==
    node.ctx \in {"memberComputed", "objectComputedKey", "patternComputedKey"}

isObjectPropertyParent(node) ==
    node.ctx \in {"objectKey", "objectComputedKey", "objectValue",
                  "patternComputedKey"}

isObjectExpressionGrandparent(node) ==
    node.ctx \in {"objectKey", "objectComputedKey", "objectValue"}

isValueOfParent(node) == node.ctx = "objectValue"

\* while (currentScope != null) { if (bindings[name] != null) return; ... }
RECURSIVE BoundInScopeChain(_, _, _)
BoundInScopeChain(scopes, scope, name) ==
    IF scope = 0 THEN FALSE
    ELSE IF name \in scopes[scope].bindings THEN TRUE
    ELSE BoundInScopeChain(scopes, scopes[scope].parent, name)

(***************************************************************************)
(* A Map, as the sequence of its entries in insertion order.               *)
(***************************************************************************)
MapHas(m, key) == \E i \in 1..Len(m) : m[i].key = key

MapIndex(m, key) == CHOOSE i \in 1..Len(m) : m[i].key = key

MapGet(m, key) == m[MapIndex(m, key)].value

\* Map.prototype.set: a present key keeps its place and takes the new value.
MapSet(m, key, value) ==
    IF MapHas(m, key)
    THEN [m EXCEPT ![MapIndex(m, key)].value = value]
    ELSE Append(m, [key |-> key, value |-> value])

MapValues(m) == [i \in 1..Len(m) |-> m[i].value]

MapKeys(m) == [i \in 1..Len(m) |-> m[i].key]

(***************************************************************************)
(* makeArrayFromCapturedBindings.  maps is the pair of Maps the function   *)
(* keeps: closure and isLocationAssignedMap.                               *)
(***************************************************************************)
EmptyMaps == [closure |-> <<>>, isLocationAssignedMap |-> <<>>]

\* The part of the first visitor that decides whether the name is captured.
IsCaptured(fun, node) ==
    /\ isReferencedIdentifier(node)
    /\ node.name \notin globals
    /\ ~(/\ fun.form \in {"FunctionDeclaration", "FunctionExpression"}
          /\ fun.id # NoName
          /\ fun.id = node.name)
    /\ ~(/\ isMemberExpressionParent(node)
          /\ isPropertyOfParent(node)
          /\ ~parentComputed(node))
    /\ ~(/\ isObjectPropertyParent(node)
          /\ isObjectExpressionGrandparent(node)
          /\ ~isValueOfParent(node))
    /\ ~BoundInScopeChain(fun.scopes, node.scope, node.name)

\* Mutation: a name already registered is left alone.
RegisterIfAbsent(maps, node) ==
    IF MapHas(maps.closure, node.name) THEN maps
    ELSE [closure |-> Append(maps.closure,
                             [key |-> node.name,
                              value |-> [name |-> node.name, id |-> node.id,
                                         loc |-> node.loc]]),
          isLocationAssignedMap |-> Append(maps.isLocationAssignedMap,
                                           [key |-> node.name, value |-> FALSE])]

\* closure.set(name, path.node); isLocationAssignedMap.set(name, false)
Register(maps, node) ==
    [closure |-> MapSet(maps.closure, node.name,
                        [name |-> node.name, id |-> node.id, loc |-> node.loc]),
     isLocationAssignedMap |-> MapSet(maps.isLocationAssignedMap,
                                      node.name, FALSE)]

\* The Identifier visitor of traverse(ast, ...)
CaptureVisitor(fun, maps, node) ==
    IF IsCaptured(fun, node) THEN Register(maps, node) ELSE maps

\* The Identifier visitor of fun.traverse(...)
LocationVisitor(maps, node) ==
    IF ~isReferencedIdentifier(node) THEN maps
    ELSE IF \/ ~MapHas(maps.closure, node.name)
            \/ MapGet(maps.isLocationAssignedMap, node.name)
    THEN maps
    ELSE [closure |->
              MapSet(maps.closure, node.name,
                     [MapGet(maps.closure, node.name) EXCEPT !.loc = node.loc]),
          isLocationAssignedMap |->
              MapSet(maps.isLocationAssignedMap, node.name, TRUE)]

RECURSIVE TraverseGenerated(_, _, _)
TraverseGenerated(fun, maps, from) ==
    IF from > Len(fun.occs) THEN maps
    ELSE TraverseGenerated(fun, CaptureVisitor(fun, maps, fun.occs[from]),
                           from + 1)

RECURSIVE TraverseOriginal(_, _, _)
TraverseOriginal(fun, maps, from) ==
    IF from > Len(fun.orig) THEN maps
    ELSE TraverseOriginal(fun, LocationVisitor(maps, fun.orig[from]), from + 1)

makeArrayFromCapturedBindings(fun) ==
    MapValues(TraverseOriginal(fun, TraverseGenerated(fun, EmptyMaps, 1),
                               1).closure)

(***************************************************************************)
(* Values of the variables a specification does not use.                   *)
(***************************************************************************)
NotReturned == [returned |-> FALSE, value |-> <<>>]

Returned(v) == [returned |-> TRUE, value |-> v]

NoCall == [threw |-> "nothing called"]

IdleFactory ==
    /\ env = [release |-> FALSE, mockVersion |-> FALSE]
    /\ filename = NoFilename
    /\ opts = [omitNativeOnlyData |-> FALSE, relativeSourceLocation |-> FALSE]
    /\ workletNumber = 1
    /\ uids = {}
    /\ program = <<>>
    /\ names = <<>>
    /\ last = NoCall
    /\ calls = 0

IdleCapture ==
    /\ cFun = FunArrow
    /\ cPos1 = 1
    /\ cPos2 = 1
    /\ closure = <<>>
    /\ isLocationAssignedMap = <<>>
    /\ cRet = NotReturned

IdleHash ==
    /\ hStr = <<>>
    /\ hI = 0
    /\ hash1 = Seed1
    /\ hash2 = Seed2
    /\ hRet = NotReturned

(***************************************************************************)
(* SpecCapture: makeArrayFromCapturedBindings, one visitor call at a time. *)
(***************************************************************************)
InitCapture ==
    /\ cFun \in Functions
    /\ cPos1 = 1
    /\ cPos2 = 1
    /\ closure = <<>>
    /\ isLocationAssignedMap = <<>>
    /\ cRet = NotReturned
    /\ IdleFactory
    /\ IdleHash

CurrentMaps == [closure |-> closure,
                isLocationAssignedMap |-> isLocationAssignedMap]

VisitGenerated ==
    /\ cPos1 <= Len(cFun.occs)
    /\ LET maps == CaptureVisitor(cFun, CurrentMaps, cFun.occs[cPos1])
       IN  /\ closure' = maps.closure
           /\ isLocationAssignedMap' = maps.isLocationAssignedMap
    /\ cPos1' = cPos1 + 1
    /\ UNCHANGED <<cFun, cPos2, cRet, factoryVars, hashVars>>

VisitOriginal ==
    /\ cPos1 > Len(cFun.occs)
    /\ cPos2 <= Len(cFun.orig)
    /\ LET maps == LocationVisitor(CurrentMaps, cFun.orig[cPos2])
       IN  /\ closure' = maps.closure
           /\ isLocationAssignedMap' = maps.isLocationAssignedMap
    /\ cPos2' = cPos2 + 1
    /\ UNCHANGED <<cFun, cPos1, cRet, factoryVars, hashVars>>

ReturnCaptured ==
    /\ cPos1 > Len(cFun.occs)
    /\ cPos2 > Len(cFun.orig)
    /\ ~cRet.returned
    /\ cRet' = Returned(MapValues(closure))
    /\ UNCHANGED <<cFun, cPos1, cPos2, closure, isLocationAssignedMap,
                   factoryVars, hashVars>>

NextCapture == VisitGenerated \/ VisitOriginal \/ ReturnCaptured

SpecCapture == InitCapture /\ [][NextCapture]_vars

(***************************************************************************)
(* SpecHash: hash, one iteration of its loop at a time.                    *)
(***************************************************************************)
HashAlphabet == {"a", "}", "*"}

BoundedStrings(alphabet, n) ==
    UNION {[1..k -> alphabet] : k \in 0..n}

InitHash ==
    /\ hStr \in BoundedStrings(HashAlphabet, MaxLen)
    /\ hI = Len(hStr)
    /\ hash1 = Seed1
    /\ hash2 = Seed2
    /\ hRet = NotReturned
    /\ IdleFactory
    /\ IdleCapture

\* while (i--) { char = str.charCodeAt(i); hash1 = ...; hash2 = ...; }
HashIterate ==
    /\ hI > 0
    /\ hI' = hI - 1
    /\ hash1' = HashUpdate(hash1, charCodeAt(hStr, hI))
    /\ hash2' = HashUpdate(hash2, charCodeAt(hStr, hI))
    /\ UNCHANGED <<hStr, hRet, factoryVars, captureVars>>

HashFinish ==
    /\ hI = 0
    /\ ~hRet.returned
    /\ hRet' = Returned(HashReturn(hash1, hash2))
    /\ UNCHANGED <<hStr, hI, hash1, hash2, factoryVars, captureVars>>

NextHash == HashIterate \/ HashFinish

SpecHash == InitHash /\ [][NextHash]_vars

(***************************************************************************)
(* makeWorkletName                                                         *)
(***************************************************************************)
UnknownFile == <<"u", "n", "k", "n", "o", "w", "n", "F", "i", "l", "e">>

WorkletSource(filepath) ==
    IF filepath # NoFilename
    THEN LET source           == basename(filepath)
             nodeModulesIndex == indexOf(filepath, NodeModules)
         IN  IF nodeModulesIndex # -1
             THEN ElementOrUndefined(filepath, nodeModulesIndex + 1)
                      \o <<"_">> \o source
             ELSE source
    ELSE UnknownFile

\* The name bound to the function, which the suffix is prepended with.
OwnName(fun) ==
    IF fun.form = "ObjectMethod" /\ fun.key # NoName THEN fun.key
    ELSE IF fun.form = "FunctionDeclaration" /\ fun.id # NoName THEN fun.id
    ELSE IF fun.form = "FunctionExpression" /\ fun.id # NoName THEN fun.id
    ELSE NoName

\* Returns the name and the counter after "state.workletNumber++".
makeWorkletName(fun, filepath, number) ==
    LET suffix == WorkletSource(filepath) \o NumberToString(number)
    IN  [name |-> IF OwnName(fun) # NoName
                  THEN toIdentifier(NameChars(OwnName(fun)) \o <<"_">> \o suffix)
                  ELSE toIdentifier(suffix),
         workletNumber |-> number + 1]

(***************************************************************************)
(* The parts of makeWorkletFactory.                                        *)
(***************************************************************************)
\* Removes the directives 'worklet' whose function parent is fun itself.
removeWorkletDirective(fun) ==
    [fun EXCEPT !.directives =
        SelectSeq(@, LAMBDA d : ~(d.value = "worklet" /\ d.owner = "fun"))]

\* Mutation: the clone is used whatever its body is.
FunExpressionClone(fun) ==
    [form |-> fun.form, id |-> fun.id, bodyIsBlock |-> fun.bodyIsBlock]

\* isBlockStatement(clone.body) ? functionExpression(null, ...) : clone
FunExpression(fun) ==
    IF fun.bodyIsBlock
    THEN [form |-> "FunctionExpression", id |-> NoName,
          bodyIsBlock |-> TRUE]
    ELSE [form |-> fun.form, id |-> fun.id, bodyIsBlock |-> fun.bodyIsBlock]

LineOffset(variables) ==
    IF Len(variables) > 0 THEN 1 - (Len(variables) + 2) ELSE 1

\* scope.generateUidIdentifier("worklet_<hash>_init_data"): the first of
\* _worklet_<hash>_init_data, ..._data2, ..._data3 the program has not used.
GenerateUid(used, workletHash) ==
    [hash |-> workletHash,
     n |-> CHOOSE i \in 1..(Cardinality(used) + 1) :
               /\ [hash |-> workletHash, n |-> i] \notin used
               /\ \A j \in 1..(i - 1) : [hash |-> workletHash, n |-> j] \in used]

\* The source map buildWorkletString returns names the file it came from.
Text(t) == [kind |-> "text", text |-> t, path |-> <<>>]

Path(path) == [kind |-> "path", text |-> "", path |-> path]

SourceMapFor(filepath) ==
    << Text("{sources:["), Path(filepath), Text("],mappings:...}") >>

\* String.prototype.replace(pattern, replacement): the first occurrence.
ReplaceFirst(str, pattern, replacement) ==
    IF \E i \in 1..Len(str) : str[i] = Path(pattern)
    THEN LET i == CHOOSE k \in 1..Len(str) :
                      /\ str[k] = Path(pattern)
                      /\ \A j \in 1..(k - 1) : str[j] # Path(pattern)
         IN  [str EXCEPT ![i] = Path(replacement)]
    ELSE str

\* path.relative(from, to) on segment sequences.
RECURSIVE CommonPrefix(_, _)
CommonPrefix(a, b) ==
    IF a # <<>> /\ b # <<>> /\ Head(a) = Head(b)
    THEN 1 + CommonPrefix(Tail(a), Tail(b))
    ELSE 0

relative(from, to) ==
    LET k == CommonPrefix(from, to)
    IN  [i \in 1..(Len(from) - k) |-> <<".", ".">>] \o SubSeq(to, k + 1, Len(to))

RealVersion == <<"package.json version">>
MockVersion == <<"x", ".", "y", ".", "z">>

Property(key, value) == [key |-> key, value |-> value]

\* sourceMapString after "sourceMapString?.replace(filename, location)".
RewrittenSourceMap(release, relativeLocation, filepath, sourceMapString) ==
    IF ~release /\ relativeLocation /\ sourceMapString.defined
    THEN String(ReplaceFirst(sourceMapString.str, filepath,
                             relative(Cwd, filepath)))
    ELSE sourceMapString

\* Mutation: the version is pushed in release mode too.
InitDataPropertiesVersionAlways(release, mock, relativeLocation, filepath, funString, sourceMapString) ==
    LET location  == IF relativeLocation THEN relative(Cwd, filepath)
                     ELSE filepath
        sourceMap == RewrittenSourceMap(release, relativeLocation, filepath,
                                        sourceMapString)
    IN  << Property("code", funString.str) >>
        \o (IF ~release THEN << Property("location", location) >> ELSE <<>>)
        \o (IF Truthy(sourceMap)
            THEN << Property("sourceMap", sourceMap.str) >> ELSE <<>>)
        \o << Property("version", IF mock THEN MockVersion ELSE RealVersion) >>

\* initDataObjectExpression.properties, in the order they are pushed.
InitDataProperties(release, mock, relativeLocation, filepath, funString, sourceMapString) ==
    LET shouldInjectLocation == ~release
        location  == IF relativeLocation THEN relative(Cwd, filepath)
                     ELSE filepath
        sourceMap == RewrittenSourceMap(release, relativeLocation, filepath,
                                        sourceMapString)
        shouldInjectVersion == ~release
    IN  << Property("code", funString.str) >>
        \o (IF shouldInjectLocation
            THEN << Property("location", location) >> ELSE <<>>)
        \o (IF Truthy(sourceMap)
            THEN << Property("sourceMap", sourceMap.str) >> ELSE <<>>)
        \o (IF shouldInjectVersion
            THEN << Property("version",
                             IF mock THEN MockVersion ELSE RealVersion) >>
            ELSE <<>>)

shouldIncludeInitData(options) == ~options.omitNativeOnlyData

\* Mutation: the constant is inserted whatever the option says.
InsertInitDataAlways(prog, include, initDataId, properties) ==
    Append(prog, [id |-> initDataId, init |-> properties])

\* pathForStringDefinitions.insertBefore(const initDataId = {...})
InsertInitData(prog, include, initDataId, properties) ==
    IF include
    THEN Append(prog, [id |-> initDataId, init |-> properties])
    ELSE prog

Statement(kind, target, value) ==
    [kind |-> kind, target |-> target, value |-> value]

\* Mutation: the declaration of _e is pushed where __stackDetails is pushed.
WrapperStatementsAnchorPushed(release, include, functionIdentifier, funExpression, variables, workletHash, initDataId, lineOffset) ==
    LET initial ==
            << Statement("const", functionIdentifier, funExpression),
               Statement("__closure", functionIdentifier,
                         [i \in 1..Len(variables) |->
                             Property(variables[i].name, variables[i])]),
               Statement("__workletHash", functionIdentifier, workletHash) >>
        withInitData ==
            IF include
            THEN Append(initial,
                        Statement("__initData", functionIdentifier, initDataId))
            ELSE initial
        withAnchor ==
            IF ~release
            THEN withInitData
                 \o << Statement("const", <<"_", "e">>,
                                 <<"new global.Error()", lineOffset, -27>>),
                       Statement("__stackDetails", functionIdentifier,
                                 <<"_", "e">>) >>
            ELSE withInitData
    IN  Append(withAnchor, Statement("return", functionIdentifier, <<>>))

\* The statements of the returned function, built as the code builds them:
\* the array literal, push, unshift and push, push.
WrapperStatements(release, include, functionIdentifier, funExpression, variables, workletHash, initDataId, lineOffset) ==
    LET initial ==
            << Statement("const", functionIdentifier, funExpression),
               Statement("__closure", functionIdentifier,
                         [i \in 1..Len(variables) |->
                             Property(variables[i].name, variables[i])]),
               Statement("__workletHash", functionIdentifier, workletHash) >>
        withInitData ==
            IF include
            THEN Append(initial,
                        Statement("__initData", functionIdentifier, initDataId))
            ELSE initial
        withAnchor ==
            IF ~release
            THEN Append(<< Statement("const", <<"_", "e">>,
                                     <<"new global.Error()", lineOffset, -27>>) >>
                            \o withInitData,
                        Statement("__stackDetails", functionIdentifier,
                                  <<"_", "e">>))
            ELSE withInitData
    IN  Append(withAnchor, Statement("return", functionIdentifier, <<>>))

(***************************************************************************)
(* What the calls makeWorkletFactory makes into the toolchain can give.    *)
(* fault says which of them throws or comes back empty; funString and      *)
(* sourceMapString are the pair buildWorkletString returns.                *)
(***************************************************************************)
FunStringA == String(<<"f">>)
FunStringB == String(<<"f", "a">>)

Toolchain(fault, funString, sourceMapString) ==
    [fault |-> fault, funString |-> funString,
     sourceMapString |-> sourceMapString]

ToolchainFaults ==
    {"generate", "transformSync", "transformed", "transformed.ast",
     "buildWorkletString", "pathForStringDefinitions",
     "pathForStringDefinitions.parentPath"}

ToolchainSuccesses(filepath) ==
    {Toolchain("none", f, m) :
        f \in {FunStringA, FunStringB},
        m \in {UndefinedString, String(SourceMapFor(filepath))}}

ToolchainFailures ==
    {Toolchain(x, FunStringA, UndefinedString) : x \in ToolchainFaults}
    \cup {Toolchain("none", f, UndefinedString) :
              f \in {UndefinedString, String(<<>>)}}

\* The functions the factory is called with, one of each form, and the calls
\* explored: every function with every success of the toolchain, one of them
\* with every failure.
FactoryFunctions == {FunAdd, FunArrow, FunNest, FunMethod, FunPattern}

FactoryCalls(filepath) ==
    (FactoryFunctions \X ToolchainSuccesses(filepath))
    \cup ({FunAdd} \X ToolchainFailures)

\* isRelease() and shouldMockVersion(); the latter is read in development only.
Environments ==
    {e \in [release : BOOLEAN, mockVersion : BOOLEAN] :
        ~(e.release /\ e.mockVersion)}

(***************************************************************************)
(* makeWorkletFactory: the outcome of one invocation in the current state. *)
(* threw names the first assertion or call that fails, "none" if none.     *)
(***************************************************************************)
Threw(where, number, nameList, uidSet, prog) ==
    [threw |-> where, workletNumber |-> number, names |-> nameList,
     uids |-> uidSet, program |-> prog]

Outcome(fun, tool) ==
    LET stripped   == removeWorkletDirective(fun)
        variables  == makeArrayFromCapturedBindings(stripped)
        named      == makeWorkletName(stripped, filename, workletNumber)
        names1     == Append(names, named.name)
        funExpr    == FunExpression(stripped)
        workletHash == hash(tool.funString.str)
        lineOffset == LineOffset(variables)
        initDataId == GenerateUid(uids, workletHash)
        uids1      == uids \cup {initDataId}
        properties == InitDataProperties(env.release, env.mockVersion,
                          opts.relativeSourceLocation, filename,
                          tool.funString, tool.sourceMapString)
        include    == shouldIncludeInitData(opts)
        program1   == InsertInitData(program, include, initDataId, properties)
        before(x)  == Threw(x, workletNumber, names, uids, program)
        afterName(x) == Threw(x, named.workletNumber, names1, uids, program)
    IN  IF filename = NoFilename THEN before("filename")
        ELSE IF tool.fault \in {"generate", "transformSync", "transformed",
                                "transformed.ast"}
        THEN before(tool.fault)
        ELSE IF tool.fault = "buildWorkletString" THEN afterName(tool.fault)
        ELSE IF ~Truthy(tool.funString) THEN afterName("funString")
        ELSE IF tool.fault \in {"pathForStringDefinitions",
                                "pathForStringDefinitions.parentPath"}
        THEN afterName(tool.fault)
        ELSE IF funExpr.form = "FunctionDeclaration"
        THEN Threw("isFunctionDeclaration", named.workletNumber, names1,
                   uids1, program1)
        ELSE IF funExpr.form = "ObjectMethod"
        THEN Threw("isObjectMethod", named.workletNumber, names1,
                   uids1, program1)
        ELSE [threw |-> "none",
              workletNumber |-> named.workletNumber,
              names |-> names1,
              uids |-> uids1,
              program |-> program1,
              directives |-> stripped.directives,
              name |-> named.name,
              variables |-> variables,
              funString |-> tool.funString,
              sourceMapString |-> tool.sourceMapString,
              workletHash |-> workletHash,
              initDataId |-> initDataId,
              initData |-> properties,
              wrapper |->
                  [params |-> <<>>,
                   body |-> WrapperStatements(env.release, include,
                                named.name, funExpr, variables, workletHash,
                                initDataId, lineOffset)]]

\* What the caller is left with: the returned function, or the exception.
Result(out) ==
    IF out.threw = "none"
    THEN [threw |-> "none", directives |-> out.directives, name |-> out.name,
          variables |-> out.variables, funString |-> out.funString,
          sourceMapString |-> out.sourceMapString,
          workletHash |-> out.workletHash, initDataId |-> out.initDataId,
          initData |-> out.initData, wrapper |-> out.wrapper]
    ELSE [threw |-> out.threw]

(***************************************************************************)
(* Spec: the invocations of makeWorkletFactory on the worklets of one file.*)
(* The compilation units explored: FileApp under every environment and     *)
(* every option, the other file names under two of them.                   *)
(***************************************************************************)
Options == [omitNativeOnlyData : BOOLEAN, relativeSourceLocation : BOOLEAN]

Configurations ==
    {c \in [env : Environments, filename : FileNames, opts : Options] :
        \/ c.filename = FileApp
        \/ /\ ~c.env.mockVersion
           /\ c.opts.omitNativeOnlyData = c.env.release
           /\ c.opts.relativeSourceLocation = c.env.release}

Init ==
    /\ \E c \in Configurations :
           /\ env = c.env
           /\ filename = c.filename
           /\ opts = c.opts
    /\ workletNumber = 1
    /\ uids = {}
    /\ program = <<>>
    /\ names = <<>>
    /\ last = NoCall
    /\ calls = 0
    /\ IdleCapture
    /\ IdleHash

MakeWorkletFactory(fun, tool) ==
    /\ calls < MaxCalls
    /\ \E out \in {Outcome(fun, tool)} :
           /\ workletNumber' = out.workletNumber
           /\ names' = out.names
           /\ uids' = out.uids
           /\ program' = out.program
           /\ last' = Result(out)
    /\ calls' = calls + 1
    /\ UNCHANGED <<env, filename, opts, captureVars, hashVars>>

Next ==
    \E call \in FactoryCalls(filename) : MakeWorkletFactory(call[1], call[2])

Spec == Init /\ [][Next]_vars

(***************************************************************************)
(*                               PROPERTIES                                *)
(***************************************************************************)

(***************************************************************************)
(* Naming.                                                                 *)
(***************************************************************************)
\* C1: the names makeWorkletName returned during one run on one file are
\* pairwise distinct, whatever the own names of the functions and after
\* toIdentifier has sanitised them; each call takes the current counter and
\* advances it by one (names holds one name per value the counter has had).
C1_NamesPairwiseDistinct ==
    /\ Len(names) = workletNumber - 1
    /\ \A i, j \in 1..Len(names) : i # j => names[i] # names[j]

(***************************************************************************)
(* Capture analysis (SpecCapture).                                         *)
(***************************************************************************)
CapturedNames == {cRet.value[i].name : i \in 1..Len(cRet.value)}

\* A referenced occurrence of a name that no enclosing scope binds, that is
\* no global and not the function's own name.
IsFreeReference(fun, node) ==
    /\ isReferencedIdentifier(node)
    /\ node.name \notin globals
    /\ node.name # OwnName(fun)
    /\ ~BoundInScopeChain(fun.scopes, node.scope, node.name)

FreeNames(fun) ==
    {fun.occs[i].name : i \in {k \in 1..Len(fun.occs) :
                                  IsFreeReference(fun, fun.occs[k])}}

\* C2: the returned capture set holds exactly one binding for each name with
\* a free reference, and none for any other name (a locally bound name, the
\* own name, a non-computed member property, a shorthand or plain key).
C2_CaptureSetExact ==
    cRet.returned =>
        /\ CapturedNames = FreeNames(cFun)
        /\ Cardinality(CapturedNames) = Len(cRet.value)

\* C3: an identifier that is the computed key of an object literal property
\* is captured when it is free, like any other reference.
C3_ComputedKeyCaptured ==
    cRet.returned =>
        \A i \in 1..Len(cFun.occs) :
            (/\ cFun.occs[i].ctx = "objectComputedKey"
             /\ IsFreeReference(cFun, cFun.occs[i]))
            => cFun.occs[i].name \in CapturedNames

\* The occurrences of the generated tree visited so far that register name.
CapturingVisits(name) ==
    {i \in 1..(cPos1 - 1) :
        cFun.occs[i].name = name /\ IsCaptured(cFun, cFun.occs[i])}

\* The referenced occurrences of name in the original function visited so far.
LocatingVisits(name) ==
    {j \in 1..(cPos2 - 1) :
        cFun.orig[j].name = name /\ isReferencedIdentifier(cFun.orig[j])}

Minimum(S) == CHOOSE x \in S : \A y \in S : x <= y

Maximum(S) == CHOOSE x \in S : \A y \in S : x >= y

\* The names registered by the first n identifiers, each once, first come first.
RECURSIVE FirstDiscoveryOrder(_, _)
FirstDiscoveryOrder(fun, n) ==
    IF n = 0 THEN <<>>
    ELSE LET before == FirstDiscoveryOrder(fun, n - 1)
             name   == fun.occs[n].name
         IN  IF /\ IsCaptured(fun, fun.occs[n])
                /\ \A k \in 1..Len(before) : before[k] # name
             THEN Append(before, name)
             ELSE before

\* C10 as stated: the representative node of every captured name is its
\* first free occurrence, and later occurrences leave the set as it was.
C10_FirstOccurrenceWins ==
    /\ MapKeys(closure) = FirstDiscoveryOrder(cFun, cPos1 - 1)
    /\ \A i \in 1..Len(closure) :
           closure[i].value.id = Minimum(CapturingVisits(closure[i].key))

\* C10 as amended: the captured names are in first-discovery order, each
\* once; the representative node of a name is the last free occurrence
\* visited (every free occurrence sets the entry again, in place); the second
\* traversal gives a name the location of its first reference in the original
\* function and changes nothing else; the returned array is in that order.
C10_LastOccurrenceKeepsPlace ==
    /\ MapKeys(closure) = FirstDiscoveryOrder(cFun, cPos1 - 1)
    /\ MapKeys(isLocationAssignedMap) = MapKeys(closure)
    /\ \A i \in 1..Len(closure) :
           LET name == closure[i].key
               node == closure[i].value
               last1 == Maximum(CapturingVisits(name))
           IN  /\ node.name = name
               /\ node.id = last1
               /\ isLocationAssignedMap[i].value = (LocatingVisits(name) # {})
               /\ node.loc = IF LocatingVisits(name) # {}
                              THEN cFun.orig[Minimum(LocatingVisits(name))].loc
                              ELSE cFun.occs[last1].loc
    /\ cRet.returned =>
           /\ cRet.value = MapValues(closure)
           /\ cRet.value = makeArrayFromCapturedBindings(cFun)

\* A name whose node is no longer its first free occurrence has been returned.
C10_NodeReplaced ==
    /\ cRet.returned
    /\ \E i \in 1..Len(closure) :
           closure[i].value.id # Minimum(CapturingVisits(closure[i].key))

(***************************************************************************)
(* hash (SpecHash).  The reference below keeps an accumulator as the four  *)
(* bytes of its unsigned value, most significant first.                    *)
(***************************************************************************)
Bit(n, i) == (n \div (2 ^ i)) % 2

NibbleXor(a, b) ==
    CHOOSE x \in 0..15 : \A i \in 0..3 : Bit(x, i) = (Bit(a, i) + Bit(b, i)) % 2

ByteXor(a, b) ==
    NibbleXor(a \div 16, b \div 16) * 16 + NibbleXor(a % 16, b % 16)

\* (u * 33) mod 2^32, then xor with a 16-bit code unit
ByteUpdate(u, code) ==
    LET t0 == u[4] * 33
        t1 == u[3] * 33 + (t0 \div 256)
        t2 == u[2] * 33 + (t1 \div 256)
        t3 == u[1] * 33 + (t2 \div 256)
    IN  << t3 % 256, t2 % 256,
           ByteXor(t1 % 256, code \div 256), ByteXor(t0 % 256, code % 256) >>

\* The accumulator after the characters of str from the last down to i + 1.
RECURSIVE ByteAccumulator(_, _, _)
ByteAccumulator(seed, str, i) ==
    IF i = Len(str) THEN seed
    ELSE ByteUpdate(ByteAccumulator(seed, str, i + 1), CharCodes[str[i + 1]])

\* The bytes of the two's complement of a signed 32-bit integer.
BytesOf(x) ==
    << (x \div 16777216) % 256, (x \div 65536) % 256, (x \div 256) % 256,
       x % 256 >>

\* The base-4096 digits, least significant first, of u1 * 4096 + u2.
Base4096Sum(u1, u2) ==
    LET low(u)  == (u[3] % 16) * 256 + u[4]
        mid(u)  == (u[3] \div 16) + u[2] * 16
        s1 == low(u1) + mid(u2)
        s2 == mid(u1) + u2[1] + (s1 \div 4096)
        s3 == u1[1] + (s2 \div 4096)
    IN  << low(u2), s1 % 4096, s2 % 4096, s3 >>

\* The base-4096 digits, least significant first, of a returned value.
Base4096Of(value) ==
    << value[3] % 4096,
       (value[3] \div 4096) + (value[2] % 256) * 16,
       (value[2] \div 256) + (value[1] % 16) * 256,
       value[1] \div 16 >>

\* C7: at every iteration each accumulator is the 32-bit truncation of
\* (accumulator * 33) xor charCode over the characters read so far, from the
\* last one on, started at 5381 and 52711; the value returned is
\* hash1 * 4096 + hash2 of the accumulators taken as unsigned, is not
\* negative, is the same for the same string, and is 5381 * 4096 + 52711
\* for the empty string.
C7_HashIsTwoSeedRollingHash ==
    LET u1 == ByteAccumulator(<<0, 0, 21, 5>>, hStr, hI)
        u2 == ByteAccumulator(<<0, 0, 205, 231>>, hStr, hI)
        final1 == ByteAccumulator(<<0, 0, 21, 5>>, hStr, 0)
        final2 == ByteAccumulator(<<0, 0, 205, 231>>, hStr, 0)
    IN  /\ 21 * 256 + 5 = 5381 /\ 205 * 256 + 231 = 52711
        /\ BytesOf(hash1) = u1
        /\ BytesOf(hash2) = u2
        /\ hRet.returned =>
               /\ hI = 0
               /\ \A k \in 1..3 : hRet.value[k] >= 0 /\ hRet.value[k] < 65536
               /\ Base4096Of(hRet.value) = Base4096Sum(final1, final2)
               /\ hRet.value = hash(hStr)
               /\ hStr = <<>> =>
                      /\ hRet.value[1] = 0
                      /\ hRet.value[2] * 65536 + hRet.value[3]
                             = 5381 * 4096 + 52711

\* hash has returned for a string that left both accumulators negative.
C7_ReturnedWithNegativeAccumulators ==
    /\ hRet.returned
    /\ hash1 < 0
    /\ hash2 < 0

(***************************************************************************)
(* makeWorkletFactory (Spec).                                              *)
(***************************************************************************)
Returned1 == calls > 0 /\ last.threw = "none"

Keys(properties) == [i \in 1..Len(properties) |-> properties[i].key]

InitDataStatements(body) ==
    {i \in 1..Len(body) : body[i].kind = "__initData"}

\* C4: an invocation that returns a wrapper inserts no constant and attaches
\* no __initData when omitNativeOnlyData is set; when it is not set it
\* inserts exactly one constant, under an identifier no earlier constant
\* has, and attaches exactly one __initData, which refers to that constant;
\* the mode plays no part.
C4_InitDataIffNotOmitted ==
    [][(calls' = calls + 1 /\ last'.threw = "none") =>
          LET body == last'.wrapper.body
          IN  IF opts.omitNativeOnlyData
              THEN /\ program' = program
                   /\ InitDataStatements(body) = {}
              ELSE /\ Len(program') = Len(program) + 1
                   /\ SubSeq(program', 1, Len(program)) = program
                   /\ program'[Len(program')].id = last'.initDataId
                   /\ program'[Len(program')].init = last'.initData
                   /\ \A i \in 1..Len(program) :
                          program[i].id # last'.initDataId
                   /\ Cardinality(InitDataStatements(body)) = 1
                   /\ \A i \in InitDataStatements(body) :
                          body[i].value = last'.initDataId]_vars

\* A wrapper returned in development mode with omitNativeOnlyData set.
C4_OmittedInDevelopment ==
    /\ Returned1
    /\ opts.omitNativeOnlyData
    /\ ~env.release
    /\ calls = 2

C6_WrapperBodyOrder ==
    Returned1 =>
        LET body  == last.wrapper.body
            dev   == ~env.release
            inc   == ~opts.omitNativeOnlyData
            n     == Len(body)
            first == IF dev THEN 2 ELSE 1
        IN  /\ last.wrapper.params = <<>>
            /\ n = 4 + (IF dev THEN 2 ELSE 0) + (IF inc THEN 1 ELSE 0)
            /\ dev => /\ body[1].kind = "const"
                      /\ body[1].target = <<"_", "e">>
            /\ body[first].kind = "const"
            /\ body[first].target = last.name
            /\ body[first].value.form
                   \in {"FunctionExpression", "ArrowFunctionExpression"}
            /\ body[first + 1].kind = "__closure"
            /\ body[first + 1].target = last.name
            /\ Keys(body[first + 1].value)
                   = [i \in 1..Len(last.variables) |-> last.variables[i].name]
            /\ body[first + 2] =
                   Statement("__workletHash", last.name, last.workletHash)
            /\ inc => body[first + 3] =
                   Statement("__initData", last.name, last.initDataId)
            /\ dev => body[n - 1] =
                   Statement("__stackDetails", last.name, <<"_", "e">>)
            /\ body[n] = Statement("return", last.name, <<>>)

\* A wrapper returned in development mode with its init data.
C6_DevelopmentWrapperWithInitData ==
    /\ Returned1
    /\ ~env.release
    /\ ~opts.omitNativeOnlyData
    /\ Len(last.wrapper.body) = 7
    /\ Len(last.variables) > 0

\* C9: an invocation returns a wrapper or throws; when it throws, no
\* wrapper is returned and no constant has been inserted; without a file
\* name it throws before the counter is advanced; the assertions on the
\* form of the function expression, made after the insertion, never throw.
C9_FailsWithNoPartialOutput ==
    [][calls' = calls + 1 =>
          /\ last'.threw \in {"none", "filename", "funString"} \cup ToolchainFaults
          /\ (last'.threw = "none") <=> ("wrapper" \in DOMAIN last')
          /\ last'.threw # "none" => program' = program /\ uids' = uids
          /\ filename = NoFilename =>
                 /\ last'.threw = "filename"
                 /\ workletNumber' = workletNumber
                 /\ names' = names]_vars

\* An invocation has thrown after an earlier one inserted its constant, and
\* after the counter was advanced.
C9_ThrewAfterNaming ==
    /\ calls = 2
    /\ last.threw = "pathForStringDefinitions"
    /\ Len(program) = 1
    /\ workletNumber = 3

=============================================================================
